---- MODULE Spec2Model ----
(***************************************************************************)
(* Model of tblogger.py: the TensorBoardLogger and CsvLogger adapters.     *)
(*                                                                         *)
(* Python strings on which the code performs character-level operations    *)
(* (replace, substring test, concatenation, join) are sequences of         *)
(* one-character strings.  Dictionary keys that are only looked up are     *)
(* TLA+ strings.  Real-valued results are exact rationals [n, d] in lowest *)
(* terms; the one place where IEEE-754 rounding is observable as a         *)
(* different integer, int(_density * numel), is modelled bit-exactly.      *)
(***************************************************************************)
EXTENDS Integers, Sequences, FiniteSets, TLC

VARIABLES
    self,         \* attributes of the TensorBoardLogger instance
    writer_open,  \* whether the SummaryWriter behind self.writer is still open
    writes,       \* records the most recent call appended to the SummaryWriter
    call,         \* the most recent call: operation, arguments, exception raised
    prev,         \* marker and global steps of the call before the most recent one
    csv_file,     \* rows of the weights_sparsity CSV file on disk
    csv_open      \* number of handles to the CSV file that are still open

vars == <<self, writer_open, writes, call, prev, csv_file, csv_open>>

(***************************************************************************)
(* Bounds of the inputs.                                                   *)
(***************************************************************************)
MaxParams == 2    \* entries of a state_dict / named_params iterable
MaxEpoch == 1     \* epoch index (and steps_completed) range 0..MaxEpoch
MaxTotal == 2     \* total steps per epoch range 1..MaxTotal
MaxStats == 2     \* entries of a stats mapping

SeqsUpTo(S, n) == UNION {[1..k -> S] : k \in 0..n}

(***************************************************************************)
(* String literals of the source, as character sequences.                  *)
(***************************************************************************)
SPARSITY_WEIGHTS ==
    <<"s", "p", "a", "r", "s", "i", "t", "y", "/", "w", "e", "i", "g", "h", "t", "s", "/">>
SPARSITY_2D_WEIGHTS ==
    <<"s", "p", "a", "r", "s", "i", "t", "y", "-", "2", "D", "/",
      "w", "e", "i", "g", "h", "t", "s", "/">>
SPARSITY_TOTAL ==
    <<"s", "p", "a", "r", "s", "i", "t", "y", "/", "w", "e", "i", "g", "h", "t", "s", "/",
      "t", "o", "t", "a", "l">>
MAGNITUDE_FILTERS ==
    <<"m", "a", "g", "n", "i", "t", "u", "d", "e", "/", "f", "i", "l", "t", "e", "r", "s", "/">>
ACTIVATIONS == <<"/", "a", "c", "t", "i", "v", "a", "t", "i", "o", "n", "s", "/">>
GRAD == <<"/", "g", "r", "a", "d">>
WEIGHT == <<"w", "e", "i", "g", "h", "t">>
BIAS == <<"b", "i", "a", "s">>
CSV_HEADER ==
    << <<"p", "a", "r", "a", "m", "e", "t", "e", "r">>,
       <<"s", "h", "a", "p", "e">>,
       <<"v", "o", "l", "u", "m", "e">>,
       <<"s", "p", "a", "r", "s", "e", " ", "v", "o", "l", "u", "m", "e">>,
       <<"s", "p", "a", "r", "s", "i", "t", "y", " ", "l", "e", "v", "e", "l">> >>

(***************************************************************************)
(* Python str operations.                                                  *)
(***************************************************************************)
\* str.replace(old, new) for a one-character old and new
Replace(s, old, new) == [i \in 1..Len(s) |-> IF s[i] = old THEN new ELSE s[i]]

\* sub in s
Contains(s, sub) ==
    \E k \in 0..(Len(s) - Len(sub)) : \A i \in 1..Len(sub) : s[k + i] = sub[i]

\* any(substring in tag for substring in subs)
AnyIn(subs, tag) == \E k \in 1..Len(subs) : Contains(tag, subs[k])

Digit(d) == <<"0", "1", "2", "3", "4", "5", "6", "7", "8", "9">>[d + 1]

\* '%d' % v, for v >= 0
RECURSIVE Dec(_)
Dec(v) == IF v < 10 THEN <<Digit(v)>> ELSE Dec(v \div 10) \o <<Digit(v % 10)>>

\* sep.join(parts)
RECURSIVE Join(_, _)
Join(sep, parts) ==
    IF Len(parts) = 0 THEN <<>>
    ELSE IF Len(parts) = 1 THEN parts[1]
    ELSE parts[1] \o sep \o Join(sep, Tail(parts))

(***************************************************************************)
(* Exact rationals.                                                        *)
(***************************************************************************)
RECURSIVE Gcd(_, _)
Gcd(a, b) == IF b = 0 THEN a ELSE Gcd(b, a % b)

Abs(x) == IF x < 0 THEN -x ELSE x

Rat(n, d) == LET g == Gcd(Abs(n), d) IN [n |-> n \div g, d |-> d \div g]

RatInt(k) == [n |-> k, d |-> 1]
RatAdd(x, y) == Rat(x.n * y.d + y.n * x.d, x.d * y.d)
RatSub(x, y) == Rat(x.n * y.d - y.n * x.d, x.d * y.d)
RatMul(x, y) == Rat(x.n * y.n, x.d * y.d)
\* x / y; the caller has ruled out y = 0
RatDiv(x, y) == IF y.n < 0 THEN Rat(-(x.n * y.d), x.d * (-y.n)) ELSE Rat(x.n * y.d, x.d * y.n)

(***************************************************************************)
(* Tensors: a shape and the number of non-zero elements.                   *)
(***************************************************************************)
RECURSIVE Prod(_)
Prod(s) == IF Len(s) = 0 THEN 1 ELSE Head(s) * Prod(Tail(s))

Dim(param) == Len(param.shape)        \* param.dim()
Numel(param) == Prod(param.shape)     \* torch.numel(param), param.numel()

\* distiller.utils.density: the fraction of non-zero elements
Density(param) == Rat(param.nnz, Numel(param))

\* distiller.utils.sparsity: 1.0 - density(tensor)
Sparsity(param) == RatSub(RatInt(1), Density(param))


\* int(_density * param.numel()) in IEEE-754 double arithmetic, for a density
\* computed as float(nnz) / numel.  With a = nnz and b = numel, 0 < a <= b:
\* the quotient is q = m * 2^-e, e = 52 + s, where s is least with b <= a * 2^s
\* and m is a * 2^e / b rounded to nearest (ties to even); the exact product is
\* q * b = a + (m * b - a * 2^e) * 2^-e.  When the quotient was rounded down by
\* rem = (a * 2^e) mod b, the product lies below a by rem * 2^-e, and rounds to
\* the double just below a (so int() yields a - 1) exactly when that exceeds
\* half the gap below a: 2^(k-53), or 2^(k-54) for a = 2^k, k = floor(log2 a).
RECURSIVE Pow2(_)
Pow2(k) == IF k = 0 THEN 1 ELSE 2 * Pow2(k - 1)

RECURSIVE PowMod2(_, _)
PowMod2(e, m) ==
    IF e = 0 THEN 1 % m
    ELSE LET h == PowMod2(e \div 2, m)
         IN  IF e % 2 = 0 THEN (h * h) % m ELSE (2 * h * h) % m

RECURSIVE FloorLog2(_)
FloorLog2(a) == IF a < 2 THEN 0 ELSE 1 + FloorLog2(a \div 2)

RECURSIVE LeastShift(_, _, _)
LeastShift(a, b, s) == IF b <= a * Pow2(s) THEN s ELSE LeastShift(a, b, s + 1)

IntDensityTimesNumel(param) ==
    LET a == param.nnz
        b == Numel(param)
    IN  IF a = 0 THEN 0
        ELSE LET k == FloorLog2(a)
                 s == LeastShift(a, b, 0)
                 e == 52 + s
                 rem == (a * PowMod2(e, b)) % b
                 odd == ((a * PowMod2(e, 2 * b)) % (2 * b)) >= b
                 down == 2 * rem < b \/ (2 * rem = b /\ ~odd)
                 below == IF a = Pow2(k) THEN 4 * rem > Pow2(k + s)
                                         ELSE 2 * rem > Pow2(k + s)
             IN  IF down /\ below THEN a - 1 ELSE a

(***************************************************************************)
(* Inputs.                                                                 *)
(***************************************************************************)
\* tensors of rank 1 to 5; (4,4) with 6 non-zeros is the documented example
Tensors ==
    { [shape |-> <<8>>, nnz |-> 6],
      [shape |-> <<4, 4>>, nnz |-> 6],
      [shape |-> <<2, 2, 3>>, nnz |-> 0],
      [shape |-> <<1, 2, 2, 2>>, nnz |-> 8],
      [shape |-> <<1, 1, 1, 1, 2>>, nnz |-> 1] }

\* the i-th key of a state_dict
ParamName(i) == <<"p">> \o Dec(i) \o <<".", "w">>

\* model.state_dict().items(): named tensors, in order, with distinct names
StateDictsOf(tensors) ==
    { [i \in 1..Len(ts) |-> [name |-> ParamName(i), shape |-> ts[i].shape, nnz |-> ts[i].nnz]] :
        ts \in SeqsUpTo(tensors, MaxParams) }

StateDicts == StateDictsOf(Tensors)

Epochs == 0..MaxEpoch

\* (epoch, completed, total) with 0 <= completed <= total, total >= 1
Markers ==
    { m \in [epoch : Epochs, completed : 0..MaxTotal, total : 1..MaxTotal] :
        m.completed <= m.total }

StatItems ==
    { [tag |-> <<"T", "o", "p", "1">>, value |-> RatInt(91)],
      [tag |-> <<"O", "v", "e", "r", "a", "l", "l", " ", "L", "o", "s", "s">>, value |-> Rat(3, 2)],
      [tag |-> <<"L", "R", " ", " ", "x">>, value |-> Rat(1, 10)] }

Prefixes == { <<"P", "e", "r", "f", " ", "T", "r", "a", "i", "n", "/">> }

\* the keys of a dict are distinct
DistinctTags(s) == \A i, j \in 1..Len(s) : s[i].tag = s[j].tag => i = j

\* stats_dict: (prefix, OrderedDict of metric name -> value)
StatsDicts ==
    { <<p, m>> : p \in Prefixes,
                 m \in {s \in SeqsUpTo(StatItems, MaxStats) : DistinctTags(s)} }

(***************************************************************************)
(* TensorBoardLogger                                                       *)
(***************************************************************************)
\* __init__: the SummaryWriter is opened, the two preferences are hard-coded
TensorBoardLogger == [writer |-> "SummaryWriter", log_gradients |-> FALSE, logged_params |-> <<WEIGHT>>]

AddScalar(tag, value, step) == [fn |-> "add_scalar", tag |-> tag, value |-> value, step |-> step]
AddScalars(tag, values, step) == [fn |-> "add_scalars", tag |-> tag, value |-> values, step |-> step]
AddHistogram(tag, value, step) == [fn |-> "add_histogram", tag |-> tag, value |-> value, step |-> step]

\* faulty variants of total_steps: the arguments confused, the factor dropped
total_steps_Swapped(total, epoch, completed) == total * completed + epoch
total_steps_NoTotal(total, epoch, completed) == epoch + completed

\* log_training_progress.total_steps
total_steps(total, epoch, completed) == total * epoch + completed

log_training_progress(stats_dict, epoch, completed, total) ==
    LET prefix == stats_dict[1]
        stats == stats_dict[2]
    IN  /\ writes' = [i \in 1..Len(stats) |->
                        AddScalar(prefix \o Replace(stats[i].tag, " ", "_"), stats[i].value,
                                  total_steps(total, epoch, completed))]
        /\ call' = [op |-> "log_training_progress", stats_dict |-> stats_dict, epoch |-> epoch,
                    completed |-> completed, total |-> total, raised |-> "none"]
        /\ UNCHANGED <<self, writer_open, csv_file, csv_open>>

log_activation_statistic(phase, stat_name, activation_stats, epoch) ==
    LET group == stat_name \o ACTIVATIONS \o phase \o <<"/">>
    IN  /\ writes' = [i \in 1..Len(activation_stats) |->
                        AddScalar(group \o activation_stats[i].tag, activation_stats[i].value,
                                  epoch)]
        /\ call' = [op |-> "log_activation_statistic", phase |-> phase, stat_name |-> stat_name,
                    activation_stats |-> activation_stats, epoch |-> epoch, raised |-> "none"]
        /\ UNCHANGED <<self, writer_open, csv_file, csv_open>>

\* a faulty variant of HasLoggedDim: the ranks Distiller's own loggers report
HasLoggedDim_2_4(param) == Dim(param) \in {2, 4}

\* param.dim() in [2, 3, 4]
HasLoggedDim(param) == Dim(param) \in {2, 3, 4}

\* the loop of log_weights_sparsity from entry i on; acc holds the two running
\* totals and the scalars written so far
RECURSIVE SparsityLoop(_, _, _, _)
SparsityLoop(sd, i, epoch, acc) ==
    IF i > Len(sd) THEN acc
    ELSE LET param == sd[i]
         IN  IF HasLoggedDim(param)
             THEN SparsityLoop(sd, i + 1, epoch,
                      [params_size |-> acc.params_size + Numel(param),
                       sparse_params_size |->
                           RatAdd(acc.sparse_params_size,
                                  RatMul(RatInt(Numel(param)), Density(param))),
                       out |-> acc.out \o
                           << AddScalar(SPARSITY_WEIGHTS \o param.name,
                                        RatMul(Sparsity(param), RatInt(100)), epoch),
                              AddScalar(SPARSITY_2D_WEIGHTS \o param.name,
                                        [fn |-> "sparsity_2D", of |-> param.name, times |-> 100],
                                        epoch) >>])
             ELSE SparsityLoop(sd, i + 1, epoch, acc)

\* model is model.state_dict().items().  With no qualifying entry both totals
\* are still the int 0 and 0/0 raises ZeroDivisionError before the last write.
log_weights_sparsity(model, epoch) ==
    LET r == SparsityLoop(model, 1, epoch,
                          [params_size |-> 0, sparse_params_size |-> RatInt(0), out |-> <<>>])
        raised == IF r.params_size = 0 THEN "ZeroDivisionError" ELSE "none"
    IN  /\ writes' =
               IF r.params_size = 0 THEN r.out
               ELSE r.out \o
                    << AddScalar(SPARSITY_TOTAL,
                                 RatMul(RatInt(100),
                                        RatSub(RatInt(1),
                                               RatDiv(r.sparse_params_size,
                                                      RatInt(r.params_size)))),
                                 epoch) >>
        /\ call' = [op |-> "log_weights_sparsity", model |-> model, epoch |-> epoch,
                    raised |-> raised]
        /\ UNCHANGED <<self, writer_open, csv_file, csv_open>>

RECURSIVE MagnitudeLoop(_, _, _)
MagnitudeLoop(sd, i, epoch) ==
    IF i > Len(sd) THEN <<>>
    ELSE LET param == sd[i]
             rest == MagnitudeLoop(sd, i + 1, epoch)
         IN  IF Dim(param) \in {4}
             THEN << AddScalars(MAGNITUDE_FILTERS \o param.name,
                                [fn |-> "norm_filters", of |-> param.name], epoch) >> \o rest
             ELSE rest

log_weights_filter_magnitude(model, epoch) ==
    /\ writes' = MagnitudeLoop(model, 1, epoch)
    /\ call' = [op |-> "log_weights_filter_magnitude", model |-> model, epoch |-> epoch,
                raised |-> "none"]
    /\ UNCHANGED <<self, writer_open, csv_file, csv_open>>

\* the loop of log_weights_distribution from pair i on.  to_np(value.grad)
\* dereferences the gradient, so a parameter without one raises AttributeError
\* and ends the loop.
RECURSIVE DistributionLoop(_, _, _, _)
DistributionLoop(logger, named_params, i, steps_completed) ==
    IF i > Len(named_params) THEN [out |-> <<>>, raised |-> "none"]
    ELSE LET value == named_params[i]
             tag == Replace(value.name, ".", "/")
             hist == IF AnyIn(logger.logged_params, tag)
                     THEN << AddHistogram(tag, [fn |-> "to_np", of |-> value.name],
                                          steps_completed) >>
                     ELSE <<>>
         IN  IF ~logger.log_gradients
             THEN LET rest == DistributionLoop(logger, named_params, i + 1, steps_completed)
                  IN  [out |-> hist \o rest.out, raised |-> rest.raised]
             ELSE IF ~value.grad
             THEN [out |-> hist, raised |-> "AttributeError"]
             ELSE LET rest == DistributionLoop(logger, named_params, i + 1, steps_completed)
                  IN  [out |-> hist \o
                               << AddHistogram(tag \o GRAD, [fn |-> "to_np_grad", of |-> value.name],
                                               steps_completed) >> \o rest.out,
                       raised |-> rest.raised]

\* a faulty variant of log_weights_distribution: the call turns gradient logging on
log_weights_distribution_Reconfigure(named_params, steps_completed) ==
    LET r == IF named_params.none THEN [out |-> <<>>, raised |-> "none"]
             ELSE DistributionLoop(self, named_params.items, 1, steps_completed)
    IN  /\ writes' = r.out
        /\ call' = [op |-> "log_weights_distribution", named_params |-> named_params,
                    steps_completed |-> steps_completed, raised |-> r.raised]
        /\ self' = [self EXCEPT !.log_gradients = TRUE]
        /\ UNCHANGED <<writer_open, csv_file, csv_open>>

log_weights_distribution(named_params, steps_completed) ==
    LET r == IF named_params.none THEN [out |-> <<>>, raised |-> "none"]
             ELSE DistributionLoop(self, named_params.items, 1, steps_completed)
    IN  /\ writes' = r.out
        /\ call' = [op |-> "log_weights_distribution", named_params |-> named_params,
                    steps_completed |-> steps_completed, raised |-> r.raised]
        /\ UNCHANGED <<self, writer_open, csv_file, csv_open>>

\* a faulty variant of BufferValues: the KeyError handler leaves the loop (break)
RECURSIVE BufferValues_Break(_, _, _)
BufferValues_Break(sd, buffer_names, i) ==
    IF i > Len(buffer_names) THEN <<>>
    ELSE IF buffer_names[i] \in DOMAIN sd
         THEN sd[buffer_names[i]] \o BufferValues_Break(sd, buffer_names, i + 1)
         ELSE <<>>

\* values += sd[buf_name].view(-1).tolist(), KeyError skipped, from name i on
RECURSIVE BufferValues(_, _, _)
BufferValues(sd, buffer_names, i) ==
    IF i > Len(buffer_names) THEN <<>>
    ELSE IF buffer_names[i] \in DOMAIN sd
         THEN sd[buffer_names[i]] \o BufferValues(sd, buffer_names, i + 1)
         ELSE BufferValues(sd, buffer_names, i + 1)

\* distiller.has_children(module)
HasChildren(module) == module.children > 0

\* the loop of log_model_buffers over model.named_modules() from module i on
RECURSIVE BuffersLoop(_, _, _, _, _)
BuffersLoop(modules, i, buffer_names, tag_prefix, step) ==
    IF i > Len(modules) THEN <<>>
    ELSE LET module == modules[i]
             rest == BuffersLoop(modules, i + 1, buffer_names, tag_prefix, step)
             values == BufferValues(module.sd, buffer_names, 1)
         IN  IF HasChildren(module) THEN rest
             ELSE IF values # <<>>
             THEN << AddScalars(Join(<<"/">>, <<tag_prefix, module.name>>), values, step) >>
                  \o rest
             ELSE rest

log_model_buffers(model, buffer_names, tag_prefix, epoch, completed, total) ==
    /\ writes' = BuffersLoop(model, 1, buffer_names, tag_prefix, total * epoch + completed)
    /\ call' = [op |-> "log_model_buffers", model |-> model, buffer_names |-> buffer_names,
                tag_prefix |-> tag_prefix, epoch |-> epoch, completed |-> completed,
                total |-> total, raised |-> "none"]
    /\ UNCHANGED <<self, writer_open, csv_file, csv_open>>

(***************************************************************************)
(* More inputs.                                                            *)
(***************************************************************************)
Phases == { <<"t", "r", "a", "i", "n">>, <<"v", "a", "l", "i", "d">> }

StatNames == { <<"s", "p", "a", "r", "s", "i", "t", "y">> }

ActivationStats ==
    { <<>>,
      << [tag |-> <<"c", "1">>, value |-> Rat(1, 4)] >>,
      << [tag |-> <<"c", "1">>, value |-> Rat(1, 4)], [tag |-> <<"f", "c">>, value |-> RatInt(0)] >> }

\* (name, tensor) pairs; grad tells whether the tensor carries a gradient
NamedParamItems ==
    [name : { <<"l", "1", ".", "w", "e", "i", "g", "h", "t">>, <<"l", "1", ".", "b", "i", "a", "s">> },
     grad : BOOLEAN]

NamedParams ==
    {[none |-> TRUE]} \cup
    {[none |-> FALSE, items |-> s] : s \in SeqsUpTo(NamedParamItems, MaxParams)}

\* model.named_modules(): modules in pre-order, each with its number of
\* children and its own state_dict()
ModuleTrees ==
    { \* a lone leaf module: named_modules() yields it under the empty name
      << [name |-> <<>>, children |-> 0, sd |-> [k \in {"running_mean"} |-> <<7>>]] >>,
      \* a root with a convolution and a batch-norm leaf
      << [name |-> <<>>, children |-> 2,
          sd |-> [k \in {"c.weight", "bn.running_mean", "bn.num_batches_tracked"} |-> <<0>>]],
         [name |-> <<"c">>, children |-> 0, sd |-> [k \in {"weight"} |-> <<1, 2>>]],
         [name |-> <<"b", "n">>, children |-> 0,
          sd |-> [k \in {"running_mean", "num_batches_tracked"} |->
                    IF k = "running_mean" THEN <<3, 4>> ELSE <<5>>]] >>,
      \* a nested container whose leaf holds an empty buffer
      << [name |-> <<>>, children |-> 1, sd |-> [k \in {"s.0.running_mean"} |-> <<>>]],
         [name |-> <<"s">>, children |-> 1, sd |-> [k \in {"0.running_mean"} |-> <<>>]],
         [name |-> <<"s", ".", "0">>, children |-> 0, sd |-> [k \in {"running_mean"} |-> <<>>]] >> }

BufferNameLists ==
    { <<"running_mean">>, <<"num_batches_tracked", "running_mean">>,
      <<"missing", "running_mean", "running_mean">>, <<"missing">> }

TagPrefixes == { <<"b", "u", "f">> }

\* the state dicts given to log_weights_filter_magnitude
FilterTensors == { [shape |-> <<4, 4>>, nnz |-> 6], [shape |-> <<1, 2, 2, 2>>, nnz |-> 8] }

FilterStateDicts == StateDictsOf(FilterTensors)

(***************************************************************************)
(* Specification of a TensorBoardLogger as constructed.                    *)
(***************************************************************************)
Init ==
    /\ self = TensorBoardLogger
    /\ writer_open = TRUE
    /\ writes = <<>>
    /\ call = [op |-> "__init__", raised |-> "none"]
    /\ prev = [set |-> FALSE]
    /\ csv_file = <<>>
    /\ csv_open = 0

Next ==
    \/ /\ \E sd \in StatsDicts, m \in Markers :
              log_training_progress(sd, m.epoch, m.completed, m.total)
       /\ UNCHANGED prev
    \/ /\ \E phase \in Phases, stat_name \in StatNames, st \in ActivationStats, epoch \in Epochs :
              log_activation_statistic(phase, stat_name, st, epoch)
       /\ UNCHANGED prev
    \/ /\ \E model \in StateDicts, epoch \in Epochs : log_weights_sparsity(model, epoch)
       /\ UNCHANGED prev
    \/ /\ \E model \in FilterStateDicts, epoch \in Epochs :
              log_weights_filter_magnitude(model, epoch)
       /\ UNCHANGED prev
    \/ /\ \E np \in NamedParams, steps \in Epochs : log_weights_distribution(np, steps)
       /\ UNCHANGED prev
    \/ /\ \E model \in ModuleTrees, names \in BufferNameLists, prefix \in TagPrefixes,
             m \in Markers :
              log_model_buffers(model, names, prefix, m.epoch, m.completed, m.total)
       /\ UNCHANGED prev

Spec == Init /\ [][Next]_vars

(***************************************************************************)
(* The hard-coded preferences set to the alternatives the source names in  *)
(* its comments (log_gradients True, logged_params ['weight', 'bias']).    *)
(***************************************************************************)
InitPrefs ==
    /\ self \in [writer : {"SummaryWriter"}, log_gradients : BOOLEAN,
                 logged_params : { <<WEIGHT>>, <<WEIGHT, BIAS>> }]
    /\ writer_open = TRUE
    /\ writes = <<>>
    /\ call = [op |-> "__init__", raised |-> "none"]
    /\ prev = [set |-> FALSE]
    /\ csv_file = <<>>
    /\ csv_open = 0

NextPrefs ==
    /\ \E np \in NamedParams, steps \in Epochs : log_weights_distribution(np, steps)
    /\ UNCHANGED prev

SpecPrefs == InitPrefs /\ [][NextPrefs]_vars

(***************************************************************************)
(* Successive marker-keyed calls: prev remembers the call before the most  *)
(* recent one.                                                             *)
(***************************************************************************)
MarkerOps == {"log_training_progress", "log_model_buffers"}

Summary ==
    IF call.op \in MarkerOps
    THEN [set |-> TRUE, epoch |-> call.epoch, completed |-> call.completed,
          total |-> call.total, steps |-> {writes[i].step : i \in 1..Len(writes)}]
    ELSE [set |-> FALSE]

StepStatsDicts == {sd \in StatsDicts : Len(sd[2]) = 1}

NextSteps ==
    \/ /\ \E sd \in StepStatsDicts, m \in Markers :
              log_training_progress(sd, m.epoch, m.completed, m.total)
       /\ prev' = Summary
    \/ /\ \E model \in ModuleTrees, prefix \in TagPrefixes, m \in Markers :
              log_model_buffers(model, <<"running_mean">>, prefix, m.epoch, m.completed, m.total)
       /\ prev' = Summary

SpecSteps == Init /\ [][NextSteps]_vars

(***************************************************************************)
(* CsvLogger                                                               *)
(***************************************************************************)
\* distiller.utils.size_to_str: '(' + ', '.join('%d' % v for v in size) + ')'
size_to_str(size) ==
    <<"(">> \o Join(<<",", " ">>, [i \in 1..Len(size) |-> Dec(size[i])]) \o <<")">>

\* param.dim() in [2, 3, 4]
CsvHasLoggedDim(param) == Dim(param) \in {2, 3, 4}

\* the row handed to writer.writerow for one parameter
CsvRow(param) ==
    << param.name, size_to_str(param.shape), Numel(param), IntDensityTimesNumel(param),
       RatMul(RatSub(RatInt(1), Density(param)), RatInt(100)) >>

\* the loop over model.state_dict().items() from entry i on; acc holds the
\* two running totals and the rows written so far.  An exception while entry
\* fault.i is processed ends the loop before its row is written.
RECURSIVE CsvLoop(_, _, _, _)
CsvLoop(sd, i, fault, acc) ==
    IF i > Len(sd) THEN acc
    ELSE IF fault.at = "row" /\ fault.i = i THEN [acc EXCEPT !.raised = "OSError"]
    ELSE LET param == sd[i]
         IN  IF CsvHasLoggedDim(param)
             THEN CsvLoop(sd, i + 1, fault,
                      [params_size |-> acc.params_size + Numel(param),
                       sparse_params_size |->
                           RatAdd(acc.sparse_params_size,
                                  RatMul(RatInt(Numel(param)), Density(param))),
                       rows |-> Append(acc.rows, CsvRow(param)),
                       raised |-> acc.raised])
             ELSE CsvLoop(sd, i + 1, fault, acc)

\* a faulty variant of CsvBody: the aggregate of the TensorBoard logger computed after
\* the loop, dividing by params_size
CsvBody_WithTotal(sd, fault) ==
    IF fault.at = "header" THEN [rows |-> <<>>, raised |-> "OSError"]
    ELSE LET r == CsvLoop(sd, 1, fault,
                          [params_size |-> 0, sparse_params_size |-> RatInt(0),
                           rows |-> <<CSV_HEADER>>, raised |-> "none"])
         IN  IF r.raised = "none" /\ r.params_size = 0
             THEN [rows |-> r.rows, raised |-> "ZeroDivisionError"]
             ELSE [rows |-> r.rows, raised |-> r.raised]

\* the body of the with statement: the two totals start at 0, the header row
\* is written, then the loop runs; the totals are not used afterwards
CsvBody(sd, fault) ==
    IF fault.at = "header" THEN [rows |-> <<>>, raised |-> "OSError"]
    ELSE LET r == CsvLoop(sd, 1, fault,
                          [params_size |-> 0, sparse_params_size |-> RatInt(0),
                           rows |-> <<CSV_HEADER>>, raised |-> "none"])
         IN  [rows |-> r.rows, raised |-> r.raised]

\* a faulty variant of WithExit: a close() after the loop instead of a with statement
WithExit_OnReturnOnly(opened, raised) == IF raised = "none" THEN opened - 1 ELSE opened

\* leaving `with open(fname, 'w') as csv_file`: the context manager closes the
\* handle whether the body returned or raised
WithExit(opened, raised) == opened - 1

\* CsvLogger.log_weights_sparsity; epoch is unused.  open(fname, 'w') truncates
\* the file and yields one more open handle.  fault is where, if anywhere, the
\* environment makes a step inside the with block raise: writing the header,
\* or processing entry fault.i.
CsvLogger_log_weights_sparsity(model, fault) ==
    LET r == CsvBody(model, fault)
    IN  /\ csv_file' = r.rows
        /\ csv_open' = WithExit(csv_open + 1, r.raised)
        /\ call' = [op |-> "CsvLogger.log_weights_sparsity", model |-> model,
                    fault |-> fault, raised |-> r.raised]
        /\ UNCHANGED <<self, writer_open, writes>>

\* the (2,11) tensor with 15 non-zeros joins the catalogue
CsvTensors ==
    { [shape |-> <<8>>, nnz |-> 6],
      [shape |-> <<4, 4>>, nnz |-> 6],
      [shape |-> <<2, 11>>, nnz |-> 15],
      [shape |-> <<2, 2, 3>>, nnz |-> 0],
      [shape |-> <<1, 2, 2, 2>>, nnz |-> 8] }

CsvStateDicts == StateDictsOf(CsvTensors)

Faults(model) ==
    {[at |-> a, i |-> 0] : a \in {"none", "header"}} \cup
    {[at |-> "row", i |-> i] : i \in 1..Len(model)}

NextCsv ==
    /\ \E model \in CsvStateDicts : \E fault \in Faults(model) :
           CsvLogger_log_weights_sparsity(model, fault)
    /\ UNCHANGED prev

SpecCsv == Init /\ [][NextCsv]_vars

(***************************************************************************)
(* Properties.                                                             *)
(***************************************************************************)
\* an entry of rank 2, 3 or 4
Qualifies(param) == Len(param.shape) \in {2, 3, 4}

QualSeq(model) == SelectSeq(model, Qualifies)

RECURSIVE SumNumel(_)
SumNumel(q) == IF q = <<>> THEN 0 ELSE Numel(Head(q)) + SumNumel(Tail(q))

\* sum(density_i * numel_i)
RECURSIVE SumDensityNumel(_)
SumDensityNumel(q) ==
    IF q = <<>> THEN RatInt(0)
    ELSE RatAdd(RatMul(Density(Head(q)), RatInt(Numel(Head(q)))), SumDensityNumel(Tail(q)))

RECURSIVE SumSeq(_)
SumSeq(s) == IF s = <<>> THEN 0 ELSE Head(s) + SumSeq(Tail(s))

RECURSIVE Concat(_)
Concat(ss) == IF ss = <<>> THEN <<>> ELSE Head(ss) \o Concat(Tail(ss))

Underscored(s) == [i \in 1..Len(s) |-> IF s[i] = " " THEN "_" ELSE s[i]]

\* C1: log_weights_sparsity on a model with at least one entry of rank 2, 3 or
\* 4 writes, keyed by epoch, the two scalars sparsity/weights/<name> and
\* sparsity-2D/weights/<name> for each such entry in model order, nothing for
\* the other entries, and last the one scalar sparsity/weights/total with the
\* value 100 * (1 - sum(density_i * numel_i) / sum(numel_i)) over those entries.
C1_SparsityWrites ==
    (call.op = "log_weights_sparsity" /\ QualSeq(call.model) # <<>>) =>
        LET q == QualSeq(call.model)
            n == Len(q)
        IN  /\ call.raised = "none"
            /\ Len(writes) = 2 * n + 1
            /\ \A k \in 1..n :
                   /\ writes[2 * k - 1].fn = "add_scalar"
                   /\ writes[2 * k - 1].tag = SPARSITY_WEIGHTS \o q[k].name
                   /\ writes[2 * k - 1].step = call.epoch
                   /\ writes[2 * k].fn = "add_scalar"
                   /\ writes[2 * k].tag = SPARSITY_2D_WEIGHTS \o q[k].name
                   /\ writes[2 * k].step = call.epoch
            /\ writes[2 * n + 1] =
                   [fn |-> "add_scalar", tag |-> SPARSITY_TOTAL,
                    value |-> RatMul(RatInt(100),
                                     RatSub(RatInt(1),
                                            RatDiv(SumDensityNumel(q), RatInt(SumNumel(q))))),
                    step |-> call.epoch]

\* a model with one qualifying and one other entry was logged with three writes
C1_Witness ==
    /\ call.op = "log_weights_sparsity"
    /\ Len(QualSeq(call.model)) = 1
    /\ Len(call.model) = 2
    /\ Len(writes) = 3
    /\ call.epoch = 1

\* C2: log_weights_sparsity on a model with no entry of rank 2, 3 or 4 does not
\* end in a division-by-zero error.
C2_NoZeroDivision ==
    (call.op = "log_weights_sparsity" /\ QualSeq(call.model) = <<>>) =>
        call.raised # "ZeroDivisionError"

C4_ProgressWrites ==
    call.op = "log_training_progress" =>
        LET prefix == call.stats_dict[1]
            stats == call.stats_dict[2]
        IN  /\ Len(writes) = Len(stats)
            /\ \A i \in 1..Len(stats) :
                   writes[i] = [fn |-> "add_scalar",
                                tag |-> prefix \o Underscored(stats[i].tag),
                                value |-> stats[i].value,
                                step |-> call.total * call.epoch + call.completed]

\* two metrics, one with a space in its name, were logged at step 2 * 1 + 1
C4_Witness ==
    /\ call.op = "log_training_progress"
    /\ Len(writes) = 2
    /\ \E i \in 1..2 : Contains(call.stats_dict[2][i].tag, <<" ">>)
    /\ call.total = 2 /\ call.epoch = 1 /\ call.completed = 1
    /\ writes[1].step = 3

\* the most recent call's marker is lexicographically later than the one before
Later == \/ call.epoch > prev.epoch
         \/ call.epoch = prev.epoch /\ call.completed > prev.completed

\* two successive marker-keyed calls with the same total, the second later
Successive ==
    /\ prev.set
    /\ call.op \in MarkerOps
    /\ call.total = prev.total
    /\ Later

\* C5 as stated: of two successive calls with the same total and markers
\* 0 <= completed <= total, the one with the later marker is written at a
\* strictly larger global step.
C5_StrictlyIncreasing ==
    Successive => \A s \in prev.steps : \A i \in 1..Len(writes) : writes[i].step > s

\* C5 amended: the later call is written at a global step that is not smaller,
\* and equal only when the earlier marker is (epoch, total) and the later one
\* is (epoch + 1, 0).
C5_NonDecreasing ==
    Successive =>
        \A s \in prev.steps : \A i \in 1..Len(writes) :
            /\ writes[i].step >= s
            /\ writes[i].step = s =>
                   /\ prev.completed = prev.total
                   /\ call.completed = 0
                   /\ call.epoch = prev.epoch + 1

\* an epoch was completed (completed = total) and the next one begun at 0, and
\* both calls wrote
C5_Witness ==
    /\ Successive
    /\ prev.completed = prev.total
    /\ call.completed = 0
    /\ prev.steps # {}
    /\ writes # <<>>

\* C6: no handle to the CSV file opened by CsvLogger.log_weights_sparsity is
\* open once the call has ended, whether it returned or raised.
C6_HandleClosed == call.op = "CsvLogger.log_weights_sparsity" => csv_open = 0

\* the call raised while processing an entry, after a data row was written
C6_Witness ==
    /\ call.op = "CsvLogger.log_weights_sparsity"
    /\ call.raised = "OSError"
    /\ call.fault.at = "row"
    /\ Len(csv_file) = 2
    /\ csv_open = 0

\* C7: a call of CsvLogger.log_weights_sparsity that returns leaves in the file
\* the header row and then, for each entry of rank 2, 3 or 4 in model order,
\* the row [name, shape string, element count, number of non-zero elements,
\* (1 - nonzero / count) * 100].
C7_CsvRows ==
    (call.op = "CsvLogger.log_weights_sparsity" /\ call.raised = "none") =>
        LET q == QualSeq(call.model)
        IN  csv_file =
                <<CSV_HEADER>> \o
                [k \in 1..Len(q) |->
                    << q[k].name, size_to_str(q[k].shape), Numel(q[k]), q[k].nnz,
                       RatMul(RatSub(RatInt(1), Rat(q[k].nnz, Numel(q[k]))), RatInt(100)) >>]

\* C8: log_model_buffers writes nothing for a module with children; for each
\* leaf module, in order, the values of the requested buffers present in its
\* state, in buffer_names order (a missing one skipped), as one scalar group
\* at tag_prefix/module_name and step total * epoch + completed when there is
\* at least one value, and nothing when there is none.
C8_BufferWrites ==
    call.op = "log_model_buffers" =>
        LET IsLeaf(m) == m.children = 0
            leaves == SelectSeq(call.model, IsLeaf)
            Vals(m) == LET Present(b) == b \in DOMAIN m.sd
                           names == SelectSeq(call.buffer_names, Present)
                       IN  Concat([j \in 1..Len(names) |-> m.sd[names[j]]])
            HasValues(m) == Vals(m) # <<>>
            logged == SelectSeq(leaves, HasValues)
        IN  /\ call.raised = "none"
            /\ writes = [k \in 1..Len(logged) |->
                            [fn |-> "add_scalars",
                             tag |-> call.tag_prefix \o <<"/">> \o logged[k].name,
                             value |-> Vals(logged[k]),
                             step |-> call.total * call.epoch + call.completed]]

\* a tree with a parent module was logged with a missing buffer name before a
\* present one, and a leaf got its group
C8_Witness ==
    /\ call.op = "log_model_buffers"
    /\ Len(call.model) > 1
    /\ call.buffer_names[1] = "missing"
    /\ Len(call.buffer_names) > 1
    /\ Len(writes) = 1
    /\ call.total = 2 /\ call.epoch = 1 /\ call.completed = 1

\* C9: after any sequence of calls the logger holds exactly the attributes set
\* at construction, logged_params = ['weight'], log_gradients = False and the
\* writer opened at construction, which is still open.
C9_ConfigurationFixed ==
    /\ self = [writer |-> "SummaryWriter", log_gradients |-> FALSE,
               logged_params |-> << <<"w", "e", "i", "g", "h", "t">> >>]
    /\ writer_open

\* a call that wrote a histogram has returned
C9_Witness ==
    /\ call.op = "log_weights_distribution"
    /\ writes # <<>>
    /\ self.log_gradients = FALSE

\* C10: CsvLogger.log_weights_sparsity on a model with no entry of rank 2, 3 or
\* 4, with no fault injected, returns without an error, leaves exactly the
\* header row in the file, and leaves the handle closed.
C10_CsvNoQualifying ==
    (/\ call.op = "CsvLogger.log_weights_sparsity"
     /\ call.fault.at = "none"
     /\ QualSeq(call.model) = <<>>) =>
        /\ call.raised = "none"
        /\ csv_file = <<CSV_HEADER>>
        /\ csv_open = 0

\* a model holding only a rank-1 entry was logged
C10_Witness ==
    /\ call.op = "CsvLogger.log_weights_sparsity"
    /\ call.fault.at = "none"
    /\ Len(call.model) = 1
    /\ QualSeq(call.model) = <<>>
    /\ csv_file = <<CSV_HEADER>>

====
